---- MODULE Spec2Model ----
(***************************************************************************)
(* Model of senses.py: remove_outliers and compute_senses.                 *)
(*                                                                         *)
(* Numbers.  A sample is an integer n of a grid and stands for the real    *)
(* number n / Scale.  Scores (hear, see, smell, touch, taste, the          *)
(* composite) and thresholds are exact rationals <<num, den>>, den > 0,    *)
(* scores in lowest terms.  Arithmetic is exact real arithmetic: the       *)
(* rounding of IEEE-754 binary64 is not part of the model.                 *)
(*                                                                         *)
(* List elements are tagged, as Python values are: a float, a bool, an     *)
(* int, or a str that float() rejects.                                     *)
(***************************************************************************)
EXTENDS Integers, Sequences, FiniteSets, TLC

VARIABLES
    pc,                 \* position in the call
    ratings_data,       \* argument of compute_senses
    z_threshold,        \* argument of compute_senses
    coherence_clean,    \* locals of compute_senses
    structural_clean,
    novelty_clean,
    likability_clean,
    hear, see, smell, touch, taste,
    result,             \* what compute_senses returned
    error,              \* what compute_senses raised
    data_list,          \* argument of remove_outliers (direct call)
    threshold,          \* argument of remove_outliers (direct call)
    returned            \* what remove_outliers returned (direct call)

vars == <<pc, ratings_data, z_threshold, coherence_clean, structural_clean,
          novelty_clean, likability_clean, hear, see, smell, touch, taste,
          result, error, data_list, threshold, returned>>

senses_vars == <<ratings_data, z_threshold, coherence_clean, structural_clean,
                 novelty_clean, likability_clean, hear, see, smell, touch,
                 taste, result, error>>

outlier_vars == <<data_list, threshold, returned>>

----------------------------------------------------------------------------
(* Bounds of the model *)

Scale == 2          \* grid step is 1 / Scale
MaxLen == 3         \* longest list of a varied signal
Extreme == 100      \* magnitude of an extreme sample, in grid units
MaxSamples == 11    \* longest list handed to remove_outliers directly

(* Constants of the program *)

EpsInv == 1000000000    \* 1e-9 is 1 / EpsInv
UnitLo == 0             \* coherence and structural domain [0, 1]
UnitHi == 1
LikeLo == 1             \* likability domain [1, 5]
LikeHi == 5
TasteShift == 1         \* taste = (mean - 1) / 4
TasteSpan == 4
SenseCount == 5         \* number of scores averaged
RoundDigitsPow == 100   \* round(x, 2)

DefaultThreshold == <<3, 1>>    \* 3.0

----------------------------------------------------------------------------
(* Exact arithmetic *)

Abs(x) == IF x < 0 THEN -x ELSE x

RECURSIVE Gcd(_, _)
Gcd(a, b) == IF b = 0 THEN a ELSE Gcd(b, a % b)

Rat(n, d) ==
    LET g == Gcd(Abs(n), Abs(d))
        s == IF d < 0 THEN -1 ELSE 1
    IN  <<(s * n) \div g, (s * d) \div g>>

RatAdd(a, b) == Rat(a[1] * b[2] + b[1] * a[2], a[2] * b[2])

RatDivInt(a, k) == Rat(a[1], a[2] * k)

RECURSIVE SumSeq(_)
SumSeq(s) == IF s = <<>> THEN 0 ELSE Head(s) + SumSeq(Tail(s))

RECURSIVE SumSq(_)
SumSq(s) == IF s = <<>> THEN 0 ELSE Head(s) * Head(s) + SumSq(Tail(s))

RECURSIVE MaxSeq(_)
MaxSeq(s) ==
    IF Len(s) = 1 THEN Head(s)
    ELSE LET m == MaxSeq(Tail(s)) IN IF Head(s) > m THEN Head(s) ELSE m

AbsSeq(s) == [i \in 1..Len(s) |-> Abs(s[i])]

Zero == <<0, 1>>
Unbound == <<0, 0>>     \* a local not assigned yet

----------------------------------------------------------------------------
(* Python values held by the lists of a bundle *)

PyFloat(n) == [t |-> "float", v |-> n]      \* the float n / Scale
PyTrue == [t |-> "bool", v |-> 1]
PyFalse == [t |-> "bool", v |-> 0]
PyInt(k) == [t |-> "int", v |-> k]          \* the int k
PyStr == [t |-> "str", v |-> 0]             \* a str such as "yes"

(* np.array(xs, dtype=float): bools and ints become floats, a str such as
   "yes" raises ValueError *)
Convertible(xs) == \A i \in 1..Len(xs) : xs[i].t # "str"

AsFloat(e) == IF e.t = "float" THEN e.v ELSE e.v * Scale

ToFloatArray(xs) == [i \in 1..Len(xs) |-> AsFloat(xs[i])]

----------------------------------------------------------------------------
(* remove_outliers *)

(* variant of Deviation: the sum is used where the mean is meant *)
Deviation_SumForMean(data, v) == Len(data) * Abs(v - SumSeq(data))

(* N * |v - mean|, in grid units *)
Deviation(data, v) == Abs(Len(data) * v - SumSeq(data))

(* (N * std)^2, in grid units: std is the population standard deviation *)
SpreadSq(data) == Len(data) * SumSq(data) - SumSeq(data) * SumSeq(data)

(* z <= th for z = |v - mean| / (std + 1e-9), decided exactly from
   d = N |v - mean|, V = (N std)^2 (both in grid units) and th = tn / td.
   With K = 1 / 1e-9 the comparison is
       K d td - tn N Scale <= tn K sqrt(V).
   Let x = d td, y = tn N Scale, g = x^2 - tn^2 V.  When g <= 0 it holds.
   Otherwise x - tn sqrt(V) = g / (x + tn sqrt(V)) > g / (2 x), so it fails
   once K g >= 2 x y; in the remaining case it is K g - x y <= y tn sqrt(V). *)
ZScoreWithin(d, V, N, th) ==
    LET tn == th[1]
        td == th[2]
        x == d * td
        y == tn * N * Scale
        g == x * x - tn * tn * V
    IN  IF tn < 0 THEN FALSE
        ELSE IF g <= 0 THEN TRUE
        ELSE IF g >= (2 * x * y + EpsInv - 1) \div EpsInv THEN FALSE
        ELSE LET r == EpsInv * g - x * y
             IN  r <= 0 \/ r * r <= y * y * tn * tn * V

(* variant of Retained: np.abs is left out, so a sample at or below the mean
   has z <= 0 *)
Retained_NoAbs(data, v, th) ==
    IF Len(data) * v - SumSeq(data) <= 0
    THEN th[1] >= 0
    ELSE ZScoreWithin(Deviation(data, v), SpreadSq(data), Len(data), th)

(* z_scores <= threshold, for the element v of data *)
Retained(data, v, th) ==
    ZScoreWithin(Deviation(data, v), SpreadSq(data), Len(data), th)

(* variant of remove_outliers: no std == 0 guard and no 1e-9, so that equal
   values give z = 0 / 0 = nan, and nan <= threshold is False *)
remove_outliers_NanOnZeroStd(data, th) ==
    IF Len(data) < 2 THEN data
    ELSE SelectSeq(data, LAMBDA v : SpreadSq(data) # 0 /\ Retained(data, v, th))

remove_outliers(data, th) ==
    IF Len(data) < 2 THEN data
    ELSE IF SpreadSq(data) = 0 THEN data
    ELSE SelectSeq(data, LAMBDA v : Retained(data, v, th))

----------------------------------------------------------------------------
(* compute_senses: the five scores *)

required_keys ==
    <<"coherence_ratings", "structural_feedback", "novelty_indicators",
      "application_successes", "likability_scores">>

(* variant of missing_keys: stops at the first missing key *)
missing_keys_FirstOnly(rd) ==
    LET all == SelectSeq(required_keys, LAMBDA k : k \notin DOMAIN rd.items)
    IN  IF all = <<>> THEN all ELSE <<Head(all)>>

missing_keys(rd) == SelectSeq(required_keys, LAMBDA k : k \notin DOMAIN rd.items)

(* variant of UnitFiltered: the upper bound is not checked *)
UnitFiltered_NoUpper(arr) == SelectSeq(arr, LAMBDA v : v >= UnitLo * Scale)

(* arr[(arr >= 0) & (arr <= 1)] *)
UnitFiltered(arr) ==
    SelectSeq(arr, LAMBDA v : v >= UnitLo * Scale /\ v <= UnitHi * Scale)

(* arr[(arr >= 1) & (arr <= 5)] *)
LikabilityFiltered(arr) ==
    SelectSeq(arr, LAMBDA v : v >= LikeLo * Scale /\ v <= LikeHi * Scale)

(* variant of MeanOrZero: no guard, the mean of no samples is nan *)
MeanOrZero_NoGuard(clean) ==
    IF Len(clean) > 0 THEN Rat(SumSeq(clean), Len(clean) * Scale) ELSE Unbound

(* float(np.mean(clean)) if len(clean) else 0.0 *)
MeanOrZero(clean) ==
    IF Len(clean) > 0 THEN Rat(SumSeq(clean), Len(clean) * Scale) ELSE Zero

(* np.max(novelty_abs) if len(novelty_abs) and np.any(novelty_abs > 0) else 1.0 *)
MaxAbs(novelty_abs) ==
    IF Len(novelty_abs) > 0 /\ (\E i \in 1..Len(novelty_abs) : novelty_abs[i] > 0)
    THEN MaxSeq(novelty_abs)
    ELSE Scale

(* float(np.mean(novelty_abs) / max_abs) if len(novelty_abs) else 0.0 *)
SmellScore(clean) ==
    LET novelty_abs == AbsSeq(clean)
    IN  IF Len(novelty_abs) > 0
        THEN Rat(SumSeq(novelty_abs), Len(novelty_abs) * MaxAbs(novelty_abs))
        ELSE Zero

(* variant of AllBooleans: isinstance(x, int), which bools and ints pass *)
AllBooleans_IntsPass(successes) ==
    \A i \in 1..Len(successes) : successes[i].t \in {"bool", "int"}

AllBooleans(successes) == \A i \in 1..Len(successes) : successes[i].t = "bool"

(* sum(successes) / len(successes) if successes else 0.0 *)
TouchScore(successes) ==
    IF Len(successes) > 0
    THEN Rat(SumSeq([i \in 1..Len(successes) |-> successes[i].v]), Len(successes))
    ELSE Zero

(* variant of TasteScore: the mean is divided by 4 without subtracting 1 *)
TasteScore_NoShift(clean) ==
    IF Len(clean) > 0
    THEN Rat(SumSeq(clean), TasteSpan * Len(clean) * Scale)
    ELSE Zero

(* float((np.mean(clean) - 1) / 4) if len(clean) else 0.0 *)
TasteScore(clean) ==
    IF Len(clean) > 0
    THEN Rat(SumSeq(clean) - TasteShift * Len(clean) * Scale,
             TasteSpan * Len(clean) * Scale)
    ELSE Zero

(* float(np.mean([hear, see, smell, touch, taste])) *)
CompositeScore(h, s, m, t, a) ==
    RatDivInt(RatAdd(RatAdd(RatAdd(RatAdd(h, s), m), t), a), SenseCount)

(* round(x, 2), in hundredths, ties to even *)
Round2(x) ==
    LET n == x[1] * RoundDigitsPow
        q == n \div x[2]
        r == n - q * x[2]
    IN  IF 2 * r < x[2] THEN q
        ELSE IF 2 * r > x[2] THEN q + 1
        ELSE IF q % 2 = 0 THEN q ELSE q + 1

(* the signal pipelines, list to score *)
CoherenceClean(raw, th) == remove_outliers(UnitFiltered(ToFloatArray(raw)), th)
(* variant of NoveltyClean: the absolute value is taken before the outliers
   are removed *)
NoveltyClean_AbsFirst(raw, th) == remove_outliers(AbsSeq(ToFloatArray(raw)), th)
NoveltyClean(raw, th) == remove_outliers(ToFloatArray(raw), th)
LikabilityClean(raw, th) == remove_outliers(LikabilityFiltered(ToFloatArray(raw)), th)

----------------------------------------------------------------------------
(* Outcomes of a call *)

NoError ==
    [raised |-> FALSE, type |-> "", prefix |-> "", cause |-> "",
     message |-> "", keys |-> <<>>]

(* raise ValueError(message) inside the try block: caught by
   except (ValueError, TypeError) and re-raised as RuntimeError *)
Wrapped(message, keys) ==
    [raised |-> TRUE, type |-> "RuntimeError",
     prefix |-> "Error processing ratings_data", cause |-> "ValueError",
     message |-> message, keys |-> keys]

NoMetadata == [hear |-> 0, see |-> 0, smell |-> 0, touch |-> 0, taste |-> 0]

NoResult ==
    [returned |-> FALSE, serialized_metadata |-> NoMetadata,
     composite_score |-> Unbound]

----------------------------------------------------------------------------
(* Inputs *)

Keys == {required_keys[i] : i \in 1..Len(required_keys)}

Lists(S) == UNION {[1..n -> S] : n \in 0..MaxLen}

Floats(S) == {PyFloat(n) : n \in S}

(* below, on and inside the bounds of [0, 1], above, and far above *)
UnitValues == {-1, 0, 1, Scale, Scale + 1, Extreme}

(* below, on and inside the bounds of [1, 5], above, and far above *)
LikabilityValues ==
    {Scale - 1, Scale, 3 * Scale + 1, 5 * Scale, 5 * Scale + 1, Extreme}

NoveltyValues == {-Extreme, -1, 0, 1, 2, Extreme}

SuccessValues == {PyTrue, PyFalse, PyInt(1), PyStr}

ZThresholds == {<<1, 20>>, <<1, 1>>, <<3, 2>>, DefaultThreshold}

Varied(k) ==
    CASE k = "coherence_ratings" ->
            Lists(Floats(UnitValues)) \cup {<<PyStr>>, <<PyTrue, PyFloat(1)>>}
      [] k = "structural_feedback" ->
            Lists(Floats(UnitValues)) \cup {<<PyStr>>, <<PyInt(1), PyFloat(0)>>}
      [] k = "novelty_indicators" ->
            Lists(Floats(NoveltyValues)) \cup {<<PyStr>>, <<PyInt(-1), PyFalse>>}
      [] k = "application_successes" ->
            Lists(SuccessValues)
      [] k = "likability_scores" ->
            Lists(Floats(LikabilityValues)) \cup {<<PyStr>>, <<PyInt(4), PyTrue>>}

EmptyBundle == [k \in Keys |-> <<>>]

TypicalBundle ==
    [k \in Keys |->
        CASE k = "coherence_ratings" -> <<PyFloat(Scale), PyFloat(1), PyFloat(1)>>
          [] k = "structural_feedback" -> <<PyFloat(1), PyFloat(Scale), PyFloat(Scale)>>
          [] k = "novelty_indicators" -> <<PyFloat(2), PyFloat(1), PyFloat(-1)>>
          [] k = "application_successes" -> <<PyTrue, PyTrue, PyFalse>>
          [] k = "likability_scores" ->
                <<PyFloat(4 * Scale + 1), PyFloat(5 * Scale), PyFloat(4 * Scale)>>]

MalformedBundle ==
    [k \in Keys |->
        CASE k = "application_successes" -> <<PyTrue, PyInt(1)>>
          [] OTHER -> <<PyFloat(1), PyStr>>]

Dict(items) == [is_dict |-> TRUE, items |-> items]
NotADict == [is_dict |-> FALSE, items |-> <<>>]

Restrict(items, present) == [k \in present |-> items[k]]

(* one signal varied over a fixed background; any subset of the keys
   present, whatever they hold; and an argument that is no dictionary *)
Bundles ==
    UNION {{Dict([bg EXCEPT ![k] = xs]) :
                bg \in {EmptyBundle, TypicalBundle}, xs \in Varied(k)} : k \in Keys}
    \cup {Dict(Restrict(bg, present)) :
                bg \in {EmptyBundle, TypicalBundle, MalformedBundle},
                present \in SUBSET Keys}
    \cup {NotADict}

----------------------------------------------------------------------------
(* compute_senses, step by step *)

(* a ValueError raised inside the try block (lines 192-195).  No input of
   the model raises anything but ValueError, so the except Exception branch
   (lines 196-199) is never taken. *)
Fail(message, keys) ==
    /\ error' = Wrapped(message, keys)
    /\ pc' = "done"

(* lines 110-123 *)
Validate ==
    /\ pc = "validate"
    /\ IF ~ratings_data.is_dict
       THEN Fail("ratings_data must be a dictionary", <<>>)
       ELSE IF missing_keys(ratings_data) # <<>>
       THEN Fail("Missing required keys", missing_keys(ratings_data))
       ELSE pc' = "hear" /\ UNCHANGED error
    /\ UNCHANGED <<ratings_data, z_threshold, coherence_clean, structural_clean,
                   novelty_clean, likability_clean, hear, see, smell, touch,
                   taste, result, outlier_vars>>

(* lines 127-132 *)
Hear ==
    /\ pc = "hear"
    /\ LET raw == ratings_data.items["coherence_ratings"]
       IN  IF ~Convertible(raw)
           THEN /\ Fail("could not convert string to float", <<>>)
                /\ UNCHANGED <<coherence_clean, hear>>
           ELSE /\ coherence_clean' = CoherenceClean(raw, z_threshold)
                /\ hear' = MeanOrZero(coherence_clean')
                /\ pc' = "see"
                /\ UNCHANGED error
    /\ UNCHANGED <<ratings_data, z_threshold, structural_clean, novelty_clean,
                   likability_clean, see, smell, touch, taste, result,
                   outlier_vars>>

(* lines 135-140 *)
See ==
    /\ pc = "see"
    /\ LET raw == ratings_data.items["structural_feedback"]
       IN  IF ~Convertible(raw)
           THEN /\ Fail("could not convert string to float", <<>>)
                /\ UNCHANGED <<structural_clean, see>>
           ELSE /\ structural_clean' = CoherenceClean(raw, z_threshold)
                /\ see' = MeanOrZero(structural_clean')
                /\ pc' = "smell"
                /\ UNCHANGED error
    /\ UNCHANGED <<ratings_data, z_threshold, coherence_clean, novelty_clean,
                   likability_clean, hear, smell, touch, taste, result,
                   outlier_vars>>

(* lines 143-151 *)
Smell ==
    /\ pc = "smell"
    /\ LET raw == ratings_data.items["novelty_indicators"]
       IN  IF ~Convertible(raw)
           THEN /\ Fail("could not convert string to float", <<>>)
                /\ UNCHANGED <<novelty_clean, smell>>
           ELSE /\ novelty_clean' = NoveltyClean(raw, z_threshold)
                /\ smell' = SmellScore(novelty_clean')
                /\ pc' = "touch"
                /\ UNCHANGED error
    /\ UNCHANGED <<ratings_data, z_threshold, coherence_clean, structural_clean,
                   likability_clean, hear, see, touch, taste, result,
                   outlier_vars>>

(* lines 154-161 *)
Touch ==
    /\ pc = "touch"
    /\ LET successes == ratings_data.items["application_successes"]
       IN  IF ~AllBooleans(successes)
           THEN /\ Fail("application_successes must contain booleans", <<>>)
                /\ UNCHANGED touch
           ELSE /\ touch' = TouchScore(successes)
                /\ pc' = "taste"
                /\ UNCHANGED error
    /\ UNCHANGED <<ratings_data, z_threshold, coherence_clean, structural_clean,
                   novelty_clean, likability_clean, hear, see, smell, taste,
                   result, outlier_vars>>

(* lines 164-171 *)
Taste ==
    /\ pc = "taste"
    /\ LET raw == ratings_data.items["likability_scores"]
       IN  IF ~Convertible(raw)
           THEN /\ Fail("could not convert string to float", <<>>)
                /\ UNCHANGED <<likability_clean, taste>>
           ELSE /\ likability_clean' = LikabilityClean(raw, z_threshold)
                /\ taste' = TasteScore(likability_clean')
                /\ pc' = "composite"
                /\ UNCHANGED error
    /\ UNCHANGED <<ratings_data, z_threshold, coherence_clean, structural_clean,
                   novelty_clean, hear, see, smell, touch, result,
                   outlier_vars>>

(* lines 175-190 *)
Composite ==
    /\ pc = "composite"
    /\ result' =
          [returned |-> TRUE,
           serialized_metadata |->
              [hear |-> Round2(hear), see |-> Round2(see),
               smell |-> Round2(smell), touch |-> Round2(touch),
               taste |-> Round2(taste)],
           composite_score |-> CompositeScore(hear, see, smell, touch, taste)]
    /\ pc' = "done"
    /\ UNCHANGED <<ratings_data, z_threshold, coherence_clean, structural_clean,
                   novelty_clean, likability_clean, hear, see, smell, touch,
                   taste, error, outlier_vars>>

Init ==
    /\ pc = "validate"
    /\ ratings_data \in Bundles
    /\ z_threshold \in ZThresholds
    /\ coherence_clean = <<>>
    /\ structural_clean = <<>>
    /\ novelty_clean = <<>>
    /\ likability_clean = <<>>
    /\ hear = Unbound
    /\ see = Unbound
    /\ smell = Unbound
    /\ touch = Unbound
    /\ taste = Unbound
    /\ result = NoResult
    /\ error = NoError
    /\ data_list = <<>>
    /\ threshold = DefaultThreshold
    /\ returned = <<>>

Next == Validate \/ Hear \/ See \/ Smell \/ Touch \/ Taste \/ Composite

Spec == Init /\ [][Next]_vars

----------------------------------------------------------------------------
(* remove_outliers called on its own *)

OutlierThresholds ==
    {<<-1, 1>>, <<0, 1>>, <<1, 20>>, <<1, 1>>, <<3, 2>>, DefaultThreshold}

SampleValues == {-Extreme, 0, 1, Extreme}

(* lists of up to MaxSamples samples, in three runs of equal values *)
SampleLists ==
    {[p \in 1..n |-> IF p <= i THEN a ELSE IF p <= j THEN b ELSE c] :
        a \in SampleValues, b \in SampleValues, c \in SampleValues,
        n \in 0..MaxSamples, i \in 0..MaxSamples, j \in 0..MaxSamples}

OutlierCalls ==
    (Lists(NoveltyValues) \X OutlierThresholds)
    \cup (SampleLists \X {DefaultThreshold})

(* lines 68-84 *)
RemoveOutliers ==
    /\ pc = "remove_outliers"
    /\ returned' = remove_outliers(data_list, threshold)
    /\ pc' = "returned"
    /\ UNCHANGED <<senses_vars, data_list, threshold>>

(* a call of remove_outliers alone: no call of compute_senses is under way,
   and its variables keep their idle values *)
InitOutlier ==
    /\ pc = "remove_outliers"
    /\ \E call \in OutlierCalls : data_list = call[1] /\ threshold = call[2]
    /\ returned = <<>>
    /\ ratings_data = NotADict
    /\ z_threshold = DefaultThreshold
    /\ coherence_clean = <<>>
    /\ structural_clean = <<>>
    /\ novelty_clean = <<>>
    /\ likability_clean = <<>>
    /\ hear = Unbound
    /\ see = Unbound
    /\ smell = Unbound
    /\ touch = Unbound
    /\ taste = Unbound
    /\ result = NoResult
    /\ error = NoError

NextOutlier == RemoveOutliers

SpecOutlier == InitOutlier /\ [][NextOutlier]_vars

----------------------------------------------------------------------------
(* Vocabulary of the properties *)

HasAllKeys == ratings_data.is_dict /\ DOMAIN ratings_data.items = Keys

NumericKeys ==
    {"coherence_ratings", "structural_feedback", "novelty_indicators",
     "likability_scores"}

NumericContents ==
    \A k \in NumericKeys : Convertible(ratings_data.items[k])

(* a bundle that passes validation *)
ValidBundle ==
    /\ HasAllKeys
    /\ NumericContents
    /\ \A i \in 1..Len(ratings_data.items["application_successes"]) :
          ratings_data.items["application_successes"][i] \in {PyTrue, PyFalse}

InUnit(x) == x[2] > 0 /\ 0 <= x[1] /\ x[1] <= x[2]

Positive(th) == th[1] > 0 /\ th[2] > 0

(* the samples of a list, as grid numbers *)
Samples(k) == ToFloatArray(ratings_data.items[k])

AfterHear == pc \in {"see", "smell", "touch", "taste", "composite", "done"}
AfterSee == pc \in {"smell", "touch", "taste", "composite", "done"}
AfterSmell == pc \in {"touch", "taste", "composite", "done"}
AfterTouch == pc \in {"taste", "composite", "done"}
AfterTaste == pc \in {"composite", "done"}

----------------------------------------------------------------------------
(* C1.  Range invariant: for every bundle that passes validation and every
   z_threshold > 0 the call succeeds, and each of hear, see, smell, touch,
   taste and the composite lies in [0, 1]. *)
C1_RangeInvariant ==
    (pc = "done" /\ ValidBundle /\ Positive(z_threshold)) =>
        /\ result.returned
        /\ ~error.raised
        /\ InUnit(hear) /\ InUnit(see) /\ InUnit(smell)
        /\ InUnit(touch) /\ InUnit(taste)
        /\ InUnit(result.composite_score)
        /\ \A f \in DOMAIN result.serialized_metadata :
              result.serialized_metadata[f] \in 0..RoundDigitsPow

(* a valid bundle with a likability of 5 and a negative novelty sample, scored
   strictly inside (0, 1) *)
C1_Witness ==
    /\ pc = "done"
    /\ ValidBundle
    /\ result.returned
    /\ taste = <<1, 1>>
    /\ \E i \in 1..Len(novelty_clean) : novelty_clean[i] < 0
    /\ smell[1] > 0 /\ smell[1] < smell[2]
    /\ result.composite_score[1] > 0
    /\ result.composite_score[1] < result.composite_score[2]

----------------------------------------------------------------------------
(* C3.  Missing keys: for every dictionary bundle lacking a non-empty set M
   of the required keys, the call fails without returning a (summary,
   composite) pair, no score is computed, and the one error message names
   every key of M, whatever the keys that are present hold. *)
C3_MissingKeys ==
    /\ (ratings_data.is_dict /\ DOMAIN ratings_data.items # Keys) =>
          ~result.returned
    /\ (pc = "done" /\ ratings_data.is_dict /\ DOMAIN ratings_data.items # Keys) =>
          /\ error.raised
          /\ error.message = "Missing required keys"
          /\ {error.keys[i] : i \in 1..Len(error.keys)}
                = Keys \ DOMAIN ratings_data.items
          /\ hear = Unbound /\ see = Unbound /\ smell = Unbound
          /\ touch = Unbound /\ taste = Unbound

(* two keys are missing, a present key holds a str among its numbers, and the
   call has failed *)
C3_Witness ==
    /\ pc = "done"
    /\ ratings_data.is_dict
    /\ Cardinality(Keys \ DOMAIN ratings_data.items) = 2
    /\ \E k \in DOMAIN ratings_data.items : ~Convertible(ratings_data.items[k])
    /\ error.raised
    /\ Len(error.keys) = 2

----------------------------------------------------------------------------
(* C4.  Non-boolean successes: for every bundle with all five keys, numeric
   contents in the four numeric lists and an element of
   application_successes that is no boolean, the call fails with the
   validation-kind error "application_successes must contain booleans" and
   returns nothing, although hear, see and smell are computed by then. *)
C4_NonBooleanSuccesses ==
    LET successes == ratings_data.items["application_successes"]
    IN  (HasAllKeys /\ NumericContents
            /\ \E i \in 1..Len(successes) : successes[i] \notin {PyTrue, PyFalse}) =>
            /\ ~result.returned
            /\ pc = "done" =>
                  /\ error = Wrapped("application_successes must contain booleans", <<>>)
                  /\ hear # Unbound /\ see # Unbound /\ smell # Unbound
                  /\ touch = Unbound /\ taste = Unbound

(* the integer 1 among booleans: the call has failed after hear, see and
   smell were computed from non-empty lists *)
C4_Witness ==
    /\ pc = "done"
    /\ HasAllKeys
    /\ NumericContents
    /\ \E i \in 1..Len(ratings_data.items["application_successes"]) :
          ratings_data.items["application_successes"][i] = PyInt(1)
    /\ \E i \in 1..Len(ratings_data.items["application_successes"]) :
          ratings_data.items["application_successes"][i] = PyTrue
    /\ error.raised
    /\ hear[1] > 0 /\ see[1] > 0 /\ smell[1] > 0

----------------------------------------------------------------------------
(* Lists related to the input of a call *)

RemoveAt(xs, p) == [i \in 1..(Len(xs) - 1) |-> IF i < p THEN xs[i] ELSE xs[i + 1]]

Negated(xs) == [i \in 1..Len(xs) |-> PyFloat(-AsFloat(xs[i]))]

OutsideUnit(v) == v < 0 \/ v > Scale
OutsideLikability(v) == v < Scale \/ v > 5 * Scale

ValuesOf(xs) == {xs[i] : i \in 1..Len(xs)}

CountOf(xs, S) == Cardinality({i \in 1..Len(xs) : xs[i] \in S})

(* the sample at p is extreme: at least Extreme in magnitude and at least
   ten times every other sample, of which there is at least one *)
ExtremeAt(xs, p) ==
    /\ Len(xs) >= 2
    /\ Abs(xs[p]) >= Extreme
    /\ \A q \in 1..Len(xs) : q # p => 10 * Abs(xs[q]) <= Extreme

Coherence == ratings_data.items["coherence_ratings"]
Structural == ratings_data.items["structural_feedback"]
Novelty == ratings_data.items["novelty_indicators"]
Successes == ratings_data.items["application_successes"]
Likability == ratings_data.items["likability_scores"]

----------------------------------------------------------------------------
(* C2.  Outlier robustness: at the default z_threshold 3.0, for each of
   coherence_ratings, novelty_indicators and likability_scores, a list of
   non-extreme samples with one extreme value added scores the same (hear,
   smell, taste) as the list without the extreme value. *)
C2_OutlierRobustness ==
    (pc = "done" /\ ValidBundle /\ z_threshold = DefaultThreshold) =>
        /\ \A p \in 1..Len(Coherence) :
              ExtremeAt(ToFloatArray(Coherence), p) =>
                 hear = MeanOrZero(CoherenceClean(RemoveAt(Coherence, p), z_threshold))
        /\ \A p \in 1..Len(Novelty) :
              ExtremeAt(ToFloatArray(Novelty), p) =>
                 smell = SmellScore(NoveltyClean(RemoveAt(Novelty, p), z_threshold))
        /\ \A p \in 1..Len(Likability) :
              ExtremeAt(ToFloatArray(Likability), p) =>
                 taste = TasteScore(LikabilityClean(RemoveAt(Likability, p), z_threshold))

----------------------------------------------------------------------------
(* C5.  No-survivor law: for every valid bundle and z_threshold, a signal
   with no surviving samples (an empty list, every value outside the domain,
   or every value removed as an outlier) scores exactly 0.0 and the call
   succeeds; five empty lists give five scores of 0.0 and a composite of
   0.0. *)
C5_NoSurvivors ==
    ValidBundle =>
        /\ (AfterHear /\ \A i \in 1..Len(Coherence) : OutsideUnit(Samples("coherence_ratings")[i]))
              => hear = Zero
        /\ (AfterHear /\ coherence_clean = <<>>) => hear = Zero
        /\ (AfterSee /\ \A i \in 1..Len(Structural) : OutsideUnit(Samples("structural_feedback")[i]))
              => see = Zero
        /\ (AfterSee /\ structural_clean = <<>>) => see = Zero
        /\ (AfterSmell /\ (Novelty = <<>> \/ novelty_clean = <<>>)) => smell = Zero
        /\ (AfterTouch /\ Successes = <<>>) => touch = Zero
        /\ (AfterTaste /\ \A i \in 1..Len(Likability) : OutsideLikability(Samples("likability_scores")[i]))
              => taste = Zero
        /\ (AfterTaste /\ likability_clean = <<>>) => taste = Zero
        /\ pc = "done" => result.returned /\ ~error.raised
        /\ (pc = "done" /\ \A k \in Keys : ratings_data.items[k] = <<>>) =>
              /\ hear = Zero /\ see = Zero /\ smell = Zero
              /\ touch = Zero /\ taste = Zero
              /\ result.composite_score = Zero
              /\ result.serialized_metadata = NoMetadata

(* coherence samples inside [0, 1] that are all removed as outliers, and
   novelty samples all removed as outliers: hear and smell are 0.0 and the
   call has returned *)
C5_Witness ==
    /\ pc = "done"
    /\ ValidBundle
    /\ result.returned
    /\ \/ /\ \E i \in 1..Len(Coherence) : ~OutsideUnit(Samples("coherence_ratings")[i])
          /\ coherence_clean = <<>>
          /\ hear = Zero
       \/ /\ Novelty # <<>>
          /\ novelty_clean = <<>>
          /\ smell = Zero

(* five empty lists, scored *)
C5_WitnessEmpty ==
    /\ pc = "done"
    /\ ValidBundle
    /\ \A k \in Keys : ratings_data.items[k] = <<>>
    /\ result.returned

----------------------------------------------------------------------------
(* C6.  Domain-filter independence: for hear and see (domain [0, 1]) and
   taste (domain [1, 5]), for every list, every out-of-domain value in it,
   at whatever position, and every z_threshold, the score equals the score
   of the list without that value; such values are no errors. *)
C6_DomainFilterIndependence ==
    ValidBundle =>
        /\ AfterHear =>
              \A p \in 1..Len(Coherence) :
                 OutsideUnit(Samples("coherence_ratings")[p]) =>
                    hear = MeanOrZero(CoherenceClean(RemoveAt(Coherence, p), z_threshold))
        /\ AfterSee =>
              \A p \in 1..Len(Structural) :
                 OutsideUnit(Samples("structural_feedback")[p]) =>
                    see = MeanOrZero(CoherenceClean(RemoveAt(Structural, p), z_threshold))
        /\ AfterTaste =>
              \A p \in 1..Len(Likability) :
                 OutsideLikability(Samples("likability_scores")[p]) =>
                    taste = TasteScore(LikabilityClean(RemoveAt(Likability, p), z_threshold))
        /\ pc = "done" => result.returned

(* a coherence list with a value above 1 between two different values of
   [0, 1], scored above 0 *)
C6_Witness ==
    /\ pc = "done"
    /\ ValidBundle
    /\ result.returned
    /\ Len(Coherence) = 3
    /\ Samples("coherence_ratings")[2] > Scale
    /\ ~OutsideUnit(Samples("coherence_ratings")[1])
    /\ ~OutsideUnit(Samples("coherence_ratings")[3])
    /\ Samples("coherence_ratings")[1] # Samples("coherence_ratings")[3]
    /\ hear[1] > 0

----------------------------------------------------------------------------
(* C7.  Zero-variance stability: for every z_threshold > 0, however small,
   when the samples of a signal that lie in its domain all have one value v
   (a single sample included), outlier removal drops nothing and the score is
   v for hear and see, (v - 1) / 4 for taste, and for smell 1.0 when v is not
   zero and 0.0 when it is. *)
C7_ZeroVariance ==
    (ValidBundle /\ Positive(z_threshold)) =>
        /\ AfterHear =>
              LET vs == {v \in ValuesOf(Samples("coherence_ratings")) : ~OutsideUnit(v)}
              IN  Cardinality(vs) = 1 =>
                     /\ Len(coherence_clean) = CountOf(Samples("coherence_ratings"), vs)
                     /\ hear = Rat(CHOOSE v \in vs : TRUE, Scale)
        /\ AfterSee =>
              LET vs == {v \in ValuesOf(Samples("structural_feedback")) : ~OutsideUnit(v)}
              IN  Cardinality(vs) = 1 =>
                     /\ Len(structural_clean) = CountOf(Samples("structural_feedback"), vs)
                     /\ see = Rat(CHOOSE v \in vs : TRUE, Scale)
        /\ AfterSmell =>
              LET vs == ValuesOf(Samples("novelty_indicators"))
              IN  Cardinality(vs) = 1 =>
                     /\ novelty_clean = Samples("novelty_indicators")
                     /\ smell = IF vs = {0} THEN Zero ELSE <<1, 1>>
        /\ AfterTaste =>
              LET vs == {v \in ValuesOf(Samples("likability_scores")) : ~OutsideLikability(v)}
              IN  Cardinality(vs) = 1 =>
                     /\ Len(likability_clean) = CountOf(Samples("likability_scores"), vs)
                     /\ taste = Rat((CHOOSE v \in vs : TRUE) - Scale, 4 * Scale)

(* at the smallest threshold: three equal novelty samples, not zero, or two
   equal coherence samples inside (0, 1) *)
C7_Witness ==
    /\ pc = "done"
    /\ ValidBundle
    /\ z_threshold = <<1, 20>>
    /\ \/ /\ Len(novelty_clean) = 3
          /\ Cardinality(ValuesOf(Samples("novelty_indicators"))) = 1
          /\ smell = <<1, 1>>
       \/ /\ Len(coherence_clean) >= 2
          /\ Cardinality(ValuesOf(coherence_clean)) = 1
          /\ hear[1] > 0 /\ hear[1] < hear[2]

----------------------------------------------------------------------------
(* C9.  Smell reduction: for every novelty list and z_threshold, the
   outliers are selected from the raw signed values; smell is
   mean(|s|) / max(|s|) over the survivors s when a survivor is not zero and
   0.0 when every survivor is 0; negating every novelty value leaves smell
   unchanged. *)
C9_SmellReduction ==
    (ValidBundle /\ AfterSmell) =>
        LET raw == Samples("novelty_indicators")
            mags == {Abs(novelty_clean[i]) : i \in 1..Len(novelty_clean)}
            top == CHOOSE m \in mags : \A n \in mags : n <= m
        IN  /\ novelty_clean =
                  SelectSeq(raw, LAMBDA v :
                      Len(raw) < 2 \/ SpreadSq(raw) = 0 \/ Retained(raw, v, z_threshold))
            /\ smell = IF mags \subseteq {0}
                       THEN Zero
                       ELSE Rat(SumSeq(AbsSeq(novelty_clean)), Len(novelty_clean) * top)
            /\ smell = SmellScore(NoveltyClean(Negated(Novelty), z_threshold))

(* novelty samples of both signs, one of them removed as an outlier, and a
   smell strictly inside (0, 1) *)
C9_Witness ==
    /\ pc = "done"
    /\ ValidBundle
    /\ \E i \in 1..Len(Novelty) : Samples("novelty_indicators")[i] < 0
    /\ \E i \in 1..Len(Novelty) : Samples("novelty_indicators")[i] > 0
    /\ novelty_clean # <<>>
    /\ Len(novelty_clean) < Len(Novelty)
    /\ smell[1] > 0 /\ smell[1] < smell[2]

----------------------------------------------------------------------------
(* Mean and standard deviation, computed from their definitions *)

RECURSIVE SumSqDevFrom(_, _)
(* the sum over j >= i of (N v_j - sum)^2, which is N^3 sigma^2 for i = 1 *)
SumSqDevFrom(data, i) ==
    IF i > Len(data) THEN 0
    ELSE LET e == Len(data) * data[i] - SumSeq(data)
         IN  e * e + SumSqDevFrom(data, i + 1)

(* (N sigma)^2 with sigma^2 = (1 / N) * sum of (v_j - mean)^2 *)
PopulationSpreadSq(data) == SumSqDevFrom(data, 1) \div Len(data)

RECURSIVE IsSubsequence(_, _)
IsSubsequence(a, b) ==
    IF a = <<>> THEN TRUE
    ELSE IF b = <<>> THEN FALSE
    ELSE IF Head(a) = Head(b) THEN IsSubsequence(Tail(a), Tail(b))
    ELSE IsSubsequence(a, Tail(b))

RECURSIVE ISqrtFrom(_, _)
ISqrtFrom(n, x) ==
    LET y == (x + n \div x) \div 2
    IN  IF y >= x THEN x ELSE ISqrtFrom(n, y)

(* the integer part of the square root *)
ISqrt(n) == IF n = 0 THEN 0 ELSE ISqrtFrom(n, n)

(* z <= sqrt(a / b) for z = |v - mean| / (std + 1e-9), from d = N |v - mean|
   and V = (N std)^2: with K = 1 / 1e-9 and c = N Scale it is
   K^2 (d^2 b - a V) <= a (2 K c sqrt(V) + c^2).  It holds when
   G = d^2 b - a V <= 0 and fails when K G > a (2 c (ISqrt(V) + 1) + c^2);
   between the two, which no input of the bounds reaches, it is taken to
   hold. *)
ZScoreAtMostRoot(d, V, N, a, b) ==
    LET G == d * d * b - a * V
        c == N * Scale
    IN  G <= 0 \/ G <= (a * (2 * c * (ISqrt(V) + 1) + c * c)) \div EpsInv

----------------------------------------------------------------------------
(* C8.  OutlierFilter contract: for every list of numbers and every
   threshold, remove_outliers returns an order-preserving subsequence of its
   input; a list of fewer than 2 elements is returned unchanged; otherwise,
   when the population standard deviation sigma is not zero, a value v is
   kept if and only if |v - mean| / (sigma + 1e-9) <= threshold, mean and
   sigma being taken over the whole input and dividing by N. *)
C8_OutlierFilterContract ==
    LET N == Len(data_list)
    IN  /\ pc = "remove_outliers" => ENABLED RemoveOutliers
        /\ pc = "returned" =>
              /\ IsSubsequence(returned, data_list)
              /\ N < 2 => returned = data_list
              /\ (N >= 2 /\ PopulationSpreadSq(data_list) # 0) =>
                    returned =
                       SelectSeq(data_list, LAMBDA v :
                          ZScoreWithin(Abs(N * v - SumSeq(data_list)),
                                       PopulationSpreadSq(data_list), N, threshold))

(* three samples, the lowest and the highest dropped, the middle one kept *)
C8_Witness ==
    /\ pc = "returned"
    /\ Len(data_list) = 3
    /\ data_list[1] < data_list[2] /\ data_list[2] < data_list[3]
    /\ returned = <<data_list[2]>>

----------------------------------------------------------------------------
(* C10.  Small-sample bound, as stated: at the default threshold 3.0 a list
   of N samples, 2 <= N <= 10, is returned whole, because no z-score exceeds
   (N - 1) / sqrt(N) < 3. *)
C10_SmallSampleBound ==
    LET N == Len(data_list)
    IN  (pc = "returned" /\ threshold = DefaultThreshold /\ N >= 2 /\ N <= 10) =>
            /\ returned = data_list
            /\ \A i \in 1..N :
                  ZScoreAtMostRoot(Deviation(data_list, data_list[i]),
                                   SpreadSq(data_list), N, (N - 1) * (N - 1), N)

(* C10, amended: at the default threshold 3.0 a list of N samples,
   2 <= N <= 10, is returned whole, because no z-score exceeds
   sqrt(N - 1) <= 3. *)
C10_SmallSampleKeepsAll ==
    LET N == Len(data_list)
    IN  (pc = "returned" /\ threshold = DefaultThreshold /\ N >= 2 /\ N <= 10) =>
            /\ returned = data_list
            /\ (N - 1) * DefaultThreshold[2] * DefaultThreshold[2]
                  <= DefaultThreshold[1] * DefaultThreshold[1]
            /\ \A i \in 1..N :
                  Deviation(data_list, data_list[i]) * Deviation(data_list, data_list[i])
                     <= (N - 1) * SpreadSq(data_list)

(* ten samples, nine equal and one extreme, whose z-score is at the bound
   sqrt(N - 1) = 3: all ten are returned *)
C10_Witness ==
    /\ pc = "returned"
    /\ threshold = DefaultThreshold
    /\ Len(data_list) = 10
    /\ CountOf(data_list, {0}) = 9
    /\ CountOf(data_list, {Extreme}) = 1
    /\ returned = data_list


====
